---- MODULE Spec2Model ----
(***************************************************************************)
(* bitsd: the command hooks of the remote listener (listener/hooks.py) and *)
(* the web handlers that change the status or post a message               *)
(* (server/handlers.py), over the status/temperature/message log, the      *)
(* real-time broadcast and the notification sink (Fonera).                 *)
(***************************************************************************)
EXTENDS Integers, Sequences, FiniteSets, TLC

\* ------------------------------------------------------------------ bounds
\* Number of commands handled in one run of the general specification.
MaxCmds == 2
\* Number of status commands of one sequential run (SpecSeq).
MaxSeq == 3
\* Number of on_open and on_close calls of one run with connections (SpecReg).
MaxConnOps == 2
\* Number of commands handled in one run with connections (SpecReg).
MaxRegCmds == 1

\* Concurrent invocations (listener connections / web requests in flight).
Procs == {"p1", "p2"}
\* Invocations of the concurrent status(1) scenario (SpecConc).
ConcProcs == {"p1", "p2", "p3"}
RegProcs == {"p1"}

None == "None"

\* ------------------------------------------------------- python conversions
Digits == {"0", "1", "2", "3", "4", "5", "6", "7", "8", "9"}
Spaces == {" "}

DigitVal(c) ==
    CASE c = "0" -> 0 [] c = "1" -> 1 [] c = "2" -> 2 [] c = "3" -> 3
      [] c = "4" -> 4 [] c = "5" -> 5 [] c = "6" -> 6 [] c = "7" -> 7
      [] c = "8" -> 8 [] c = "9" -> 9

RECURSIVE LStrip(_)
LStrip(s) == IF s # <<>> /\ Head(s) \in Spaces THEN LStrip(Tail(s)) ELSE s

RECURSIVE RStrip(_)
RStrip(s) ==
    IF s # <<>> /\ s[Len(s)] \in Spaces THEN RStrip(SubSeq(s, 1, Len(s) - 1)) ELSE s

\* str.strip(): int() and float() ignore surrounding whitespace.
Strip(s) == RStrip(LStrip(s))

HasSign(s) == s # <<>> /\ Head(s) \in {"+", "-"}
Unsigned(s) == IF HasSign(s) THEN Tail(s) ELSE s
Sign(s) == IF s # <<>> /\ Head(s) = "-" THEN -1 ELSE 1

AllDigits(s) == \A i \in 1..Len(s) : s[i] \in Digits

RECURSIVE DigitsVal(_)
DigitsVal(s) ==
    IF s = <<>> THEN 0 ELSE 10 * DigitsVal(SubSeq(s, 1, Len(s) - 1)) + DigitVal(s[Len(s)])

\* int(s) does not raise ValueError: optional sign, then one or more digits.
IsIntLiteral(s) ==
    LET u == Unsigned(Strip(s)) IN u # <<>> /\ AllDigits(u)

\* int(s), for a literal.
ParseInt(s) == Sign(Strip(s)) * DigitsVal(Unsigned(Strip(s)))

DotAt(u) == IF \E i \in 1..Len(u) : u[i] = "." THEN CHOOSE i \in 1..Len(u) : u[i] = "." ELSE 0
IntPart(u) == IF DotAt(u) = 0 THEN u ELSE SubSeq(u, 1, DotAt(u) - 1)
FracPart(u) == IF DotAt(u) = 0 THEN <<>> ELSE SubSeq(u, DotAt(u) + 1, Len(u))

\* float(s) does not raise ValueError: optional sign, digits with at most one
\* point and a digit on one side of it at least ("1", "1.", ".5", "2.5").
IsFloatLiteral(s) ==
    LET u == Unsigned(Strip(s)) IN
        /\ AllDigits(IntPart(u))
        /\ AllDigits(FracPart(u))
        /\ Len(IntPart(u)) + Len(FracPart(u)) >= 1

\* float(s), for a literal: the value as the pair <<numerator, number of
\* decimal places>> with the trailing zeros of the fraction dropped, so that
\* "2.50", "2.5" and " 2.5" are one value.
RECURSIVE DropZeros(_)
DropZeros(f) ==
    IF f # <<>> /\ f[Len(f)] = "0" THEN DropZeros(SubSeq(f, 1, Len(f) - 1)) ELSE f

ParseFloat(s) ==
    LET u == Unsigned(Strip(s))
        f == DropZeros(FracPart(u))
    IN  <<Sign(Strip(s)) * DigitsVal(IntPart(u) \o f), Len(f)>>

\* ---------------------------------------------------------- base64, UTF-8
B64Chars ==
    << "A", "B", "C", "D", "E", "F", "G", "H", "I", "J", "K", "L", "M",
       "N", "O", "P", "Q", "R", "S", "T", "U", "V", "W", "X", "Y", "Z",
       "a", "b", "c", "d", "e", "f", "g", "h", "i", "j", "k", "l", "m",
       "n", "o", "p", "q", "r", "s", "t", "u", "v", "w", "x", "y", "z",
       "0", "1", "2", "3", "4", "5", "6", "7", "8", "9", "+", "/" >>

B64Pad == "="
InB64(c) == \E i \in 1..Len(B64Chars) : B64Chars[i] = c
B64Val(c) == (CHOOSE i \in 1..Len(B64Chars) : B64Chars[i] = c) - 1

\* binascii's find_valid(s, 1): the second character of s that is a base64
\* character or the pad (s starts at the pad under examination).
B64Valid(s) == SelectSeq(s, LAMBDA c : InB64(c) \/ c = B64Pad)
NextValidIsPad(s) == Len(B64Valid(s)) >= 2 /\ B64Valid(s)[2] = B64Pad

Pow2(n) == CASE n = 0 -> 1 [] n = 2 -> 4 [] n = 4 -> 16 [] n = 6 -> 64 [] n = 8 -> 256

\* binascii.a2b_base64: characters outside the alphabet are skipped, a pad
\* that ends a quantum ends the input, and bits left over are an error
\* ("Incorrect padding"). The result is <<ok, bytes>>.
RECURSIVE A2bBase64(_, _, _, _, _)
A2bBase64(s, quad, leftchar, leftbits, out) ==
    IF s = <<>> THEN <<leftbits = 0, out>>
    ELSE LET c == Head(s) IN
        IF c = B64Pad
        THEN IF quad < 2 \/ (quad = 2 /\ ~NextValidIsPad(s))
             THEN A2bBase64(Tail(s), quad, leftchar, leftbits, out)
             ELSE <<TRUE, out>>
        ELSE IF ~InB64(c)
        THEN A2bBase64(Tail(s), quad, leftchar, leftbits, out)
        ELSE LET lc == leftchar * 64 + B64Val(c)
                 lb == leftbits + 6
             IN  IF lb >= 8
                 THEN A2bBase64(Tail(s), (quad + 1) % 4, lc % Pow2(lb - 8), lb - 8,
                                Append(out, (lc \div Pow2(lb - 8)) % 256))
                 ELSE A2bBase64(Tail(s), (quad + 1) % 4, lc, lb, out)

\* base64.b64decode(message): raises TypeError when a2b_base64 fails.
B64DecodeOk(s) == A2bBase64(s, 0, 0, 0, <<>>)[1]
B64Decode(s) == A2bBase64(s, 0, 0, 0, <<>>)[2]

IsCont(b) == b >= 128 /\ b <= 191

\* bytes.decode('utf8'): <<ok, code points>>; ok is FALSE where Python raises
\* UnicodeDecodeError (stray continuation byte, truncated or overlong
\* sequence, surrogate, lead byte above 0xF4).
RECURSIVE Utf8(_, _)
Utf8(b, out) ==
    IF b = <<>> THEN <<TRUE, out>>
    ELSE LET b1 == b[1] IN
        IF b1 < 128 THEN Utf8(Tail(b), Append(out, b1))
        ELSE IF b1 >= 194 /\ b1 <= 223
        THEN IF Len(b) >= 2 /\ IsCont(b[2])
             THEN Utf8(SubSeq(b, 3, Len(b)), Append(out, (b1 - 192) * 64 + (b[2] - 128)))
             ELSE <<FALSE, out>>
        ELSE IF b1 >= 224 /\ b1 <= 239
        THEN IF /\ Len(b) >= 3 /\ IsCont(b[2]) /\ IsCont(b[3])
                /\ (b1 = 224 => b[2] >= 160)
                /\ (b1 = 237 => b[2] <= 159)
             THEN Utf8(SubSeq(b, 4, Len(b)),
                       Append(out, (b1 - 224) * 4096 + (b[2] - 128) * 64 + (b[3] - 128)))
             ELSE <<FALSE, out>>
        ELSE IF b1 >= 240 /\ b1 <= 244
        THEN IF /\ Len(b) >= 4 /\ IsCont(b[2]) /\ IsCont(b[3]) /\ IsCont(b[4])
                /\ (b1 = 240 => b[2] >= 144)
                /\ (b1 = 244 => b[2] <= 143)
             THEN Utf8(SubSeq(b, 5, Len(b)),
                       Append(out, (b1 - 240) * 262144 + (b[2] - 128) * 4096
                                   + (b[3] - 128) * 64 + (b[4] - 128)))
             ELSE <<FALSE, out>>
        ELSE <<FALSE, out>>

Utf8DecodeOk(b) == Utf8(b, <<>>)[1]
Utf8Decode(b) == Utf8(b, <<>>)[2]

\* tornado.escape.xhtml_escape on a sequence of code points:
\* & < > " ' become &amp; &lt; &gt; &quot; &#39;
EscapeChar(c) ==
    CASE c = 38 -> <<38, 97, 109, 112, 59>>
      [] c = 60 -> <<38, 108, 116, 59>>
      [] c = 62 -> <<38, 103, 116, 59>>
      [] c = 34 -> <<38, 113, 117, 111, 116, 59>>
      [] c = 39 -> <<38, 35, 51, 57, 59>>
      [] OTHER -> <<c>>

RECURSIVE xhtml_escape(_)
xhtml_escape(t) == IF t = <<>> THEN <<>> ELSE EscapeChar(Head(t)) \o xhtml_escape(Tail(t))

\* ------------------------------------------------------------------ inputs
\* Raw fields as the listener hands them over: sequences of characters.
IntInputs == { <<"1">>, <<" ", "3">>, <<"x">>, <<"1", ".", "5">> }
FloatInputs == { <<"2", ".", "5">>, <<"x">> }
StatusInputs == { <<"0">>, <<"1">>, <<"2">>, <<"x">> }
\* "aGk=" is "hi"; "a!Gk=" decodes to "hi" as well (the "!" is skipped);
\* "aGk" has incorrect padding; "/w==" is the byte 0xFF, not UTF-8;
\* "w6k=" is the bytes 0xC3 0xA9, the code point 233.
MessageInputs ==
    { <<"a", "G", "k", "=">>, <<"a", "!", "G", "k", "=">>, <<"a", "G", "k">>,
      <<"/", "w", "=", "=">>, <<"w", "6", "k", "=">> }
\* Text typed in the web form: "hi" and "<".
WebTexts == { <<104, 105>>, <<60>> }
UserNames == {"BITS", "alice"}
\* The user store: who resolves.
UserStores == { {}, {"BITS"}, {"BITS", "alice"} }

\* A command: its kind, its raw fields a and b, and for the web form the
\* user name of the cookie and the text typed.
Cmd(kind, a, b) == [kind |-> kind, a |-> a, b |-> b, username |-> "", msgtext |-> <<>>]
WebCmd(kind, u, t) == [kind |-> kind, a |-> <<>>, b |-> <<>>, username |-> u, msgtext |-> t]
NoCmd == Cmd(None, <<>>, <<>>)

HookCommands ==
    {Cmd("temperature", a, b) : a \in {<<"1">>, <<"x">>}, b \in FloatInputs}
      \cup {Cmd("status", a, <<>>) : a \in StatusInputs}
      \cup {Cmd("enter", a, <<>>) : a \in {<<"1">>, <<"x">>}}
      \cup {Cmd("leave", a, <<>>) : a \in {<<"1">>, <<"x">>}}
      \cup {Cmd("message", a, <<>>) : a \in MessageInputs}
      \cup {Cmd("sound", a, <<>>) : a \in IntInputs}

WebCommands ==
    {Cmd("admin", a, <<>>) : a \in {<<>>, <<"1">>}}
      \cup {WebCmd("webmessage", u, t) : u \in UserNames, t \in WebTexts}

Commands == HookCommands \cup WebCommands

\* ------------------------------------------------------------------- state
VARIABLES
    log,         \* the committed records of the store, oldest first
    pending,     \* records added and flushed in the open session, not committed
    session,     \* the invocation inside session_scope(), or None
    clock,       \* timestamps handed out so far
    broadcasts,  \* payloads passed to broadcast(), in order
    sink,        \* notifier.send_* calls, in order, each with its outcome
    users,       \* the user store
    pc,          \* each invocation's position in its handler
    cmd,         \* the command each invocation handles
    loc,         \* each invocation's local variables
    ret,         \* how each invocation's last handler ended
    issued,      \* commands handed to handlers so far
    hist,        \* status values submitted so far (sequential runs)
    clients,     \* the members of each MessageNotifier (CLIENTS, QUEUE)
    delivered,   \* what has been sent to each connection, in order
    connlog,     \* on_open / on_close calls so far, in order
    cpc,         \* each StatusConnection's position in on_open
    hookbcast    \* the registry behind hooks.broadcast

vars == <<log, pending, session, clock, broadcasts, sink, users, pc, cmd, loc, ret,
          issued, hist, clients, delivered, connlog, cpc, hookbcast>>

OPEN == "open"
CLOSED == "closed"

\* Python's None where a record is expected.
NoRec == [kind |-> None]

NoLoc == [sensorid |-> 0, value |-> <<0, 0>>, textstatus |-> None, curstatus |-> NoRec,
          rec |-> NoRec, payload |-> NoRec, text |-> <<>>, user |-> None,
          message |-> None, trace |-> <<>>]

\* The calls an invocation has made so far, in order (for the properties).
Trace(l, p, op) == [l EXCEPT ![p].trace = Append(@, op)]

Range(q) == {q[i] : i \in 1..Len(q)}
OfKind(q, k) == SelectSeq(q, LAMBDA r : r.kind = k)

\* The two registries: StatusConnection.CLIENTS and StatusHandler.QUEUE.
CLIENTS == "CLIENTS"
QUEUE == "QUEUE"
Registries == {CLIENTS, QUEUE}
\* The connections: SockJS connections (StatusConnection) and plain
\* websockets (StatusHandler).
Conns == {"c1", "c2"}
WsConns == {"w1"}
AllConns == Conns \cup WsConns
\* The registry a connection of that class registers with.
RegistryOf(c) == IF c \in Conns THEN CLIENTS ELSE QUEUE

\* MessageNotifier(...) at class creation: empty registries, no connection.
NoConnections ==
    /\ clients = [r \in Registries |-> {}]
    /\ delivered = [c \in AllConns |-> <<>>]
    /\ connlog = <<>>
    /\ cpc = [c \in Conns |-> "idle"]

\* TemperatureSample(value, sensor, modified_by), Status(status, modified_by),
\* Message(user, text), each with the timestamp of the moment it is added.
TemperatureSample(value, sensor, by, ts) ==
    [kind |-> "temperature", value |-> value, sensor |-> sensor, by |-> by, ts |-> ts]
Status(value, by, ts) == [kind |-> "status", value |-> value, by |-> by, ts |-> ts]
Message(user, text, ts) == [kind |-> "message", author |-> user, text |-> text, ts |-> ts]

\* The payload of a persisted record: type tag, fields and timestamp.
jsondict(r) ==
    CASE r.kind = "temperature" ->
            [type |-> "temperature",
             data |-> [sensor |-> r.sensor, value |-> r.value, modifiedby |-> r.by,
                       timestamp |-> r.ts]]
      [] r.kind = "status" ->
            [type |-> "status",
             data |-> [value |-> r.value, modifiedby |-> r.by, timestamp |-> r.ts]]
      [] r.kind = "message" ->
            [type |-> "message",
             data |-> [user |-> r.author, text |-> r.text, timestamp |-> r.ts]]

\* What the open session sees: the committed log and its own flushed records.
Visible == log \o pending

\* A mistaken query: the oldest Status instead of the most recent.
get_oldest_status ==
    LET st == OfKind(Visible, "status") IN IF st = <<>> THEN NoRec ELSE st[1]

\* query.get_current_status: the most recent Status by timestamp, or None.
get_current_status ==
    LET st == OfKind(Visible, "status") IN IF st = <<>> THEN NoRec ELSE st[Len(st)]

\* query.get_user: the user of that name, or None.
get_user(name) == IF name \in users THEN name ELSE None

Init ==
    /\ log = <<>>
    /\ pending = <<>>
    /\ session = None
    /\ clock = 0
    /\ broadcasts = <<>>
    /\ sink = <<>>
    /\ users \in UserStores
    /\ pc = [p \in Procs |-> "idle"]
    /\ cmd = [p \in Procs |-> NoCmd]
    /\ loc = [p \in Procs |-> NoLoc]
    /\ ret = [p \in Procs |-> None]
    /\ issued = 0
    /\ hist = <<>>
    /\ NoConnections
    /\ hookbcast = CLIENTS

\* ------------------------------------------------------- control-flow helpers
Goto(p, l) == pc' = [pc EXCEPT ![p] = l]
\* The handler returns to its caller.
Return(p) == /\ pc' = [pc EXCEPT ![p] = "idle"]
             /\ ret' = [ret EXCEPT ![p] = "returned"]
\* An exception leaves the handler.
Raise(p, e) == /\ pc' = [pc EXCEPT ![p] = "idle"]
               /\ ret' = [ret EXCEPT ![p] = e]

Store == <<log, pending, session, clock>>
\* The registries and the connections' calls: no command handler changes them.
Reg == <<clients, connlog, cpc, hookbcast>>
\* The payloads broadcast and what reached the connections.
Fanout == <<broadcasts, delivered>>
Out == <<Fanout, sink>>
Env == <<users, cmd, issued, hist, Reg>>

EntryOf(kind) ==
    CASE kind = "temperature" -> "t_start"
      [] kind = "status" -> "st_start"
      [] kind = "enter" -> "e_start"
      [] kind = "leave" -> "l_start"
      [] kind = "message" -> "m_start"
      [] kind = "sound" -> "s_start"
      [] kind = "admin" -> "adm_start"
      [] kind = "webmessage" -> "w_start"

\* The listener (or the web server) hands command c to its handler.
Dispatch(p, c) ==
    /\ pc[p] = "idle"
    /\ pc' = [pc EXCEPT ![p] = EntryOf(c.kind)]
    /\ cmd' = [cmd EXCEPT ![p] = c]
    /\ loc' = [loc EXCEPT ![p] = NoLoc]
    /\ ret' = [ret EXCEPT ![p] = None]
    /\ issued' = issued + 1
    /\ UNCHANGED <<Store, Out, users, Reg>>

Issue(p) ==
    /\ issued < MaxCmds
    /\ \E c \in Commands : Dispatch(p, c)
    /\ UNCHANGED hist

\* ----------------------------------------------------------- session_scope
EnterPcs == {"t_enter", "st_enter", "m_enter", "adm_enter", "w_enter"}
AfterEnter(l) ==
    CASE l = "t_enter" -> "t_log"
      [] l = "st_enter" -> "st_read"
      [] l = "m_enter" -> "m_user"
      [] l = "adm_enter" -> "adm_read"
      [] l = "w_enter" -> "w_user"

\* with session_scope() as session: the block is entered; one invocation at
\* a time is inside a session.
session_scope_enter(p) ==
    /\ pc[p] \in EnterPcs
    /\ session = None
    /\ session' = p
    /\ loc' = Trace(loc, p, "begin")
    /\ Goto(p, AfterEnter(pc[p]))
    /\ UNCHANGED <<log, pending, clock, Out, Env, ret>>

\* The session commits: its records become part of the log.
Commit(p) ==
    /\ session = p
    /\ log' = log \o pending
    /\ pending' = <<>>
    /\ session' = None
    /\ loc' = Trace(loc, p, "commit")

ExitPcs == {"t_exit", "st_exit", "adm_exit", "w_exit"}

\* The block is left normally and the handler has nothing more to do.
session_scope_exit(p) ==
    /\ pc[p] \in ExitPcs
    /\ Commit(p)
    /\ Return(p)
    /\ UNCHANGED <<clock, Out, Env>>

\* ----------------------------------------------------- store, fan-out, sink
NextTs == clock + 1

\* persist(...): the record is added to the session and flushed.
persist(p, r) ==
    /\ pending' = Append(pending, r)
    /\ clock' = NextTs
    /\ loc' = Trace([loc EXCEPT ![p].rec = r], p, "log")

\* A mistaken register: a member that registers again is dropped.
RegisterToggles(members, c) ==
    IF c \in members THEN members \ {c} ELSE members \cup {c}

\* MessageNotifier.register and unregister: the registry is a set.
register(members, c) == members \cup {c}
unregister(members, c) == members \ {c}

\* A mistaken notifier: the first send that fails ends the loop, and the
\* members after it (c1 before c2) are not served.
NotifierBroadcastStopsAtFailure(r, m, failing) ==
    delivered' = [c \in AllConns |->
        IF c \in clients[r] /\ ~(c = "c2" /\ "c1" \in failing)
        THEN Append(delivered[c], [msg |-> m, ok |-> c \notin failing])
        ELSE delivered[c]]

\* MessageNotifier.broadcast: the message is sent to every member of the
\* registry; a send that fails (failing: the members whose send fails) is
\* caught, and the member stays registered.
NotifierBroadcast(r, m, failing) ==
    delivered' = [c \in AllConns |->
        IF c \in clients[r]
        THEN Append(delivered[c], [msg |-> m, ok |-> c \notin failing])
        ELSE delivered[c]]

\* The registry a handler's broadcast goes to: handlers.broadcast serves
\* the web handlers, hooks.broadcast is what the listener was started with.
BroadcastRegistry(p) ==
    IF cmd[p].kind \in {"admin", "webmessage"} THEN CLIENTS ELSE hookbcast

\* broadcast(message): the payload goes to the connected clients.
broadcast(p, m) ==
    /\ broadcasts' = Append(broadcasts, m)
    /\ \E failing \in SUBSET clients[BroadcastRegistry(p)] :
          NotifierBroadcast(BroadcastRegistry(p), m, failing)
    /\ loc' = Trace([loc EXCEPT ![p].payload = m], p, "broadcast")

\* notifier.send_*: the Fonera is told; the call may fail to reach it, which
\* is logged inside the notifier and not reported to the caller.
Notify(p, call, arg, l) ==
    \E ok \in BOOLEAN :
        /\ sink' = Append(sink, [call |-> call, arg |-> arg, ok |-> ok])
        /\ loc' = Trace(l, p, IF ok THEN "send" ELSE "send_failed")

\* ------------------------------------------------- handle_temperature_command
\* A mistaken handler: the ValueError is logged and the handler goes on.
TemperatureStartNoReturn(p) ==
    /\ pc[p] = "t_start"
    /\ IF IsIntLiteral(cmd[p].a) /\ IsFloatLiteral(cmd[p].b)
       THEN loc' = [loc EXCEPT ![p].sensorid = ParseInt(cmd[p].a),
                               ![p].value = ParseFloat(cmd[p].b)]
       ELSE UNCHANGED loc
    /\ Goto(p, "t_enter")
    /\ UNCHANGED <<Store, Out, Env, ret>>

TemperatureStart(p) ==
    /\ pc[p] = "t_start"
    /\ IF IsIntLiteral(cmd[p].a) /\ IsFloatLiteral(cmd[p].b)
       THEN /\ loc' = [loc EXCEPT ![p].sensorid = ParseInt(cmd[p].a),
                                  ![p].value = ParseFloat(cmd[p].b)]
            /\ Goto(p, "t_enter")
            /\ UNCHANGED ret
       ELSE /\ Return(p)
            /\ UNCHANGED loc
    /\ UNCHANGED <<Store, Out, Env>>

TemperatureLog(p) ==
    /\ pc[p] = "t_log"
    /\ persist(p, TemperatureSample(loc[p].value, loc[p].sensorid, "BITS", NextTs))
    /\ Goto(p, "t_bcast")
    /\ UNCHANGED <<log, session, Out, Env, ret>>

\* A mistaken handler: the payload is built anew, with the time of the
\* broadcast, instead of taken from the persisted sample.
TemperatureBroadcastFresh(p) ==
    /\ pc[p] = "t_bcast"
    /\ broadcast(p, jsondict(TemperatureSample(loc[p].value, loc[p].sensorid, "BITS", NextTs)))
    /\ Goto(p, "t_exit")
    /\ UNCHANGED <<Store, sink, Env, ret>>

TemperatureBroadcast(p) ==
    /\ pc[p] = "t_bcast"
    /\ broadcast(p, jsondict(loc[p].rec))
    /\ Goto(p, "t_exit")
    /\ UNCHANGED <<Store, sink, Env, ret>>

\* ------------------------------------------------------ handle_status_command
StatusStart(p) ==
    /\ pc[p] = "st_start"
    /\ IF ~IsIntLiteral(cmd[p].a)
       THEN Return(p) /\ UNCHANGED loc
       ELSE IF ParseInt(cmd[p].a) \notin {0, 1}
       THEN Return(p) /\ UNCHANGED loc
       ELSE /\ loc' = [loc EXCEPT ![p].textstatus =
                            IF ParseInt(cmd[p].a) = 1 THEN OPEN ELSE CLOSED]
            /\ Goto(p, "st_enter")
            /\ UNCHANGED ret
    /\ UNCHANGED <<Store, Out, Env>>

StatusRead(p) ==
    /\ pc[p] = "st_read"
    /\ loc' = Trace([loc EXCEPT ![p].curstatus = get_current_status], p, "read")
    /\ Goto(p, "st_decide")
    /\ UNCHANGED <<Store, Out, Env, ret>>

\* A mistaken deduplicator: the comparison is inverted.
ShouldApplyInverted(curstatus, textstatus) ==
    curstatus = NoRec \/ curstatus.value = textstatus

\* A mistaken deduplicator: every valid status is applied.
ShouldApplyAlways(curstatus, textstatus) == TRUE

\* curstatus is None or curstatus.value != textstatus
ShouldApply(curstatus, textstatus) ==
    curstatus = NoRec \/ curstatus.value # textstatus

\* A mistaken handler: the Fonera is told of a status that was discarded.
StatusDecideNotifiesAnyway(p) ==
    /\ pc[p] = "st_decide"
    /\ IF ShouldApply(loc[p].curstatus, loc[p].textstatus)
       THEN /\ persist(p, Status(loc[p].textstatus, "BITS", NextTs))
            /\ Goto(p, "st_bcast")
       ELSE /\ Goto(p, "st_notify")
            /\ UNCHANGED <<pending, clock, loc>>
    /\ UNCHANGED <<log, session, Out, Env, ret>>

StatusDecide(p) ==
    /\ pc[p] = "st_decide"
    /\ IF ShouldApply(loc[p].curstatus, loc[p].textstatus)
       THEN /\ persist(p, Status(loc[p].textstatus, "BITS", NextTs))
            /\ Goto(p, "st_bcast")
       ELSE /\ Goto(p, "st_exit")
            /\ UNCHANGED <<pending, clock, loc>>
    /\ UNCHANGED <<log, session, Out, Env, ret>>

StatusBroadcast(p) ==
    /\ pc[p] = "st_bcast"
    /\ broadcast(p, jsondict(loc[p].rec))
    /\ Goto(p, "st_notify")
    /\ UNCHANGED <<Store, sink, Env, ret>>

\* A mistaken handler: a failure of the sink call is raised inside the
\* session, which rolls back.
StatusNotifyRaises(p) ==
    /\ pc[p] = "st_notify"
    /\ \E ok \in BOOLEAN :
        /\ sink' = Append(sink, [call |-> "send_status", arg |-> loc[p].textstatus,
                                 ok |-> ok])
        /\ loc' = Trace(loc, p, IF ok THEN "send" ELSE "send_failed")
        /\ IF ok
           THEN Goto(p, "st_exit") /\ UNCHANGED <<Store, ret>>
           ELSE /\ pending' = <<>>
                /\ session' = None
                /\ Raise(p, "error")
                /\ UNCHANGED <<log, clock>>
    /\ UNCHANGED <<Fanout, Env>>

StatusNotify(p) ==
    /\ pc[p] = "st_notify"
    /\ Notify(p, "send_status", loc[p].textstatus, loc)
    /\ Goto(p, "st_exit")
    /\ UNCHANGED <<Store, Fanout, Env, ret>>

\* ------------------------------------- handle_enter_command / handle_leave_command
\* A mistaken handler: an id that parses is passed on to the Fonera.
EnterCommandNotifies(p) ==
    /\ pc[p] = "e_start"
    /\ IF IsIntLiteral(cmd[p].a)
       THEN Notify(p, "send_enter", ParseInt(cmd[p].a), loc)
       ELSE UNCHANGED <<sink, loc>>
    /\ Return(p)
    /\ UNCHANGED <<Store, Fanout, Env>>

EnterCommand(p) ==
    /\ pc[p] = "e_start"
    /\ Return(p)
    /\ UNCHANGED <<Store, Out, Env, loc>>

LeaveCommand(p) ==
    /\ pc[p] = "l_start"
    /\ Return(p)
    /\ UNCHANGED <<Store, Out, Env, loc>>

\* ----------------------------------------------------- handle_message_command
\* A mistaken handler: the bytes are taken for code points, one each.
MessageStartLatin1(p) ==
    /\ pc[p] = "m_start"
    /\ IF ~B64DecodeOk(cmd[p].a)
       THEN Return(p) /\ UNCHANGED loc
       ELSE /\ loc' = [loc EXCEPT ![p].text = B64Decode(cmd[p].a),
                                  ![p].user = "BITS"]
            /\ Goto(p, "m_enter")
            /\ UNCHANGED ret
    /\ UNCHANGED <<Store, Out, Env>>

MessageStart(p) ==
    /\ pc[p] = "m_start"
    /\ IF ~B64DecodeOk(cmd[p].a)
       THEN Return(p) /\ UNCHANGED loc
       ELSE IF ~Utf8DecodeOk(B64Decode(cmd[p].a))
       THEN Raise(p, "UnicodeDecodeError") /\ UNCHANGED loc
       ELSE /\ loc' = [loc EXCEPT ![p].text = Utf8Decode(B64Decode(cmd[p].a)),
                                  ![p].user = "BITS"]
            /\ Goto(p, "m_enter")
            /\ UNCHANGED ret
    /\ UNCHANGED <<Store, Out, Env>>

MessageUser(p) ==
    /\ pc[p] = "m_user"
    /\ IF get_user(loc[p].user) = None
       THEN /\ session = p
            /\ log' = log \o pending
            /\ pending' = <<>>
            /\ session' = None
            /\ loc' = Trace([loc EXCEPT ![p].user = None], p, "commit")
            /\ Return(p)
       ELSE /\ loc' = [loc EXCEPT ![p].user = get_user(loc[p].user)]
            /\ Goto(p, "m_log")
            /\ UNCHANGED <<log, pending, session, ret>>
    /\ UNCHANGED <<clock, Out, Env>>

MessageLog(p) ==
    /\ pc[p] = "m_log"
    /\ persist(p, Message(loc[p].user, loc[p].text, NextTs))
    /\ Goto(p, "m_bcast")
    /\ UNCHANGED <<log, session, Out, Env, ret>>

MessageBroadcast(p) ==
    /\ pc[p] = "m_bcast"
    /\ broadcast(p, jsondict(loc[p].rec))
    /\ Goto(p, "m_exit")
    /\ UNCHANGED <<Store, sink, Env, ret>>

MessageExit(p) ==
    /\ pc[p] = "m_exit"
    /\ Commit(p)
    /\ Goto(p, "m_notify")
    /\ UNCHANGED <<clock, Out, Env, ret>>

MessageNotify(p) ==
    /\ pc[p] = "m_notify"
    /\ Notify(p, "send_message", loc[p].text, loc)
    /\ Return(p)
    /\ UNCHANGED <<Store, Fanout, Env>>

\* ------------------------------------------------------- handle_sound_command
\* A mistaken handler: the sound is broadcast to the clients as well.
SoundCommandAlsoBroadcast(p) ==
    /\ pc[p] = "s_start"
    /\ IF IsIntLiteral(cmd[p].a)
       THEN /\ Notify(p, "send_sound", ParseInt(cmd[p].a), loc)
            /\ broadcasts' = Append(broadcasts, jsondict(Status(OPEN, "BITS", NextTs)))
       ELSE UNCHANGED <<sink, loc, broadcasts>>
    /\ Return(p)
    /\ UNCHANGED <<Store, delivered, Env>>

SoundCommand(p) ==
    /\ pc[p] = "s_start"
    /\ IF IsIntLiteral(cmd[p].a)
       THEN Notify(p, "send_sound", ParseInt(cmd[p].a), loc)
       ELSE UNCHANGED <<sink, loc>>
    /\ Return(p)
    /\ UNCHANGED <<Store, Fanout, Env>>

\* ------------------------------------------------------- AdminPageHandler
\* post(): change_status() is called when the changestatus argument is given.
AdminPost(p) ==
    /\ pc[p] = "adm_start"
    /\ IF cmd[p].a # <<>> THEN Goto(p, "adm_enter") /\ UNCHANGED ret ELSE Return(p)
    /\ UNCHANGED <<Store, Out, Env, loc>>

\* A mistaken toggle: an empty log is taken for a closed seat.
ToggleOpensEmptyLog(curstatus) ==
    IF curstatus = NoRec THEN OPEN
    ELSE IF curstatus.value = CLOSED THEN OPEN ELSE CLOSED

\* The status the admin page switches to.
Toggle(curstatus) ==
    IF curstatus = NoRec THEN CLOSED
    ELSE IF curstatus.value = CLOSED THEN OPEN ELSE CLOSED

AdminRead(p) ==
    /\ pc[p] = "adm_read"
    /\ loc' = Trace([loc EXCEPT ![p].curstatus = get_current_status,
                                ![p].textstatus = Toggle(get_current_status),
                                ![p].message = ""], p, "read")
    /\ Goto(p, "adm_log")
    /\ UNCHANGED <<Store, Out, Env, ret>>

AdminLog(p) ==
    /\ pc[p] = "adm_log"
    /\ persist(p, Status(loc[p].textstatus, "web", NextTs))
    /\ Goto(p, "adm_bcast")
    /\ UNCHANGED <<log, session, Out, Env, ret>>

AdminBroadcast(p) ==
    /\ pc[p] = "adm_bcast"
    /\ broadcast(p, jsondict(loc[p].rec))
    /\ Goto(p, "adm_notify")
    /\ UNCHANGED <<Store, sink, Env, ret>>

\* notifier.send_status, the page message, and the render of the finally.
AdminNotify(p) ==
    /\ pc[p] = "adm_notify"
    /\ Notify(p, "send_status", loc[p].textstatus, [loc EXCEPT ![p].message = "changed"])
    /\ Goto(p, "adm_exit")
    /\ UNCHANGED <<Store, Fanout, Env, ret>>

\* ------------------------------------------------------ MessagePageHandler
WebMessageStart(p) ==
    /\ pc[p] = "w_start"
    /\ loc' = [loc EXCEPT ![p].text = xhtml_escape(cmd[p].msgtext)]
    /\ Goto(p, "w_enter")
    /\ UNCHANGED <<Store, Out, Env, ret>>

WebMessageUser(p) ==
    /\ pc[p] = "w_user"
    /\ loc' = [loc EXCEPT ![p].user = get_user(cmd[p].username)]
    /\ Goto(p, "w_log")
    /\ UNCHANGED <<Store, Out, Env, ret>>

WebMessageLog(p) ==
    /\ pc[p] = "w_log"
    /\ persist(p, Message(loc[p].user, loc[p].text, NextTs))
    /\ Goto(p, "w_bcast")
    /\ UNCHANGED <<log, session, Out, Env, ret>>

WebMessageBroadcast(p) ==
    /\ pc[p] = "w_bcast"
    /\ broadcast(p, jsondict(loc[p].rec))
    /\ Goto(p, "w_notify")
    /\ UNCHANGED <<Store, sink, Env, ret>>

WebMessageNotify(p) ==
    /\ pc[p] = "w_notify"
    /\ Notify(p, "send_message", loc[p].text, loc)
    /\ Goto(p, "w_exit")
    /\ UNCHANGED <<Store, Fanout, Env, ret>>

\* ------------------------------------------------------------ specification
Step(p) ==
    \/ session_scope_enter(p)
    \/ session_scope_exit(p)
    \/ TemperatureStart(p)
    \/ TemperatureLog(p)
    \/ TemperatureBroadcast(p)
    \/ StatusStart(p)
    \/ StatusRead(p)
    \/ StatusDecide(p)
    \/ StatusBroadcast(p)
    \/ StatusNotify(p)
    \/ EnterCommand(p)
    \/ LeaveCommand(p)
    \/ MessageStart(p)
    \/ MessageUser(p)
    \/ MessageLog(p)
    \/ MessageBroadcast(p)
    \/ MessageExit(p)
    \/ MessageNotify(p)
    \/ SoundCommand(p)
    \/ AdminPost(p)
    \/ AdminRead(p)
    \/ AdminLog(p)
    \/ AdminBroadcast(p)
    \/ AdminNotify(p)
    \/ WebMessageStart(p)
    \/ WebMessageUser(p)
    \/ WebMessageLog(p)
    \/ WebMessageBroadcast(p)
    \/ WebMessageNotify(p)

Next == \E p \in Procs : Issue(p) \/ Step(p)

Spec == Init /\ [][Next]_vars

\* ------------------------------------------------------ failure of the store
\* The commit at the end of the with block fails: the session rolls back,
\* its records are gone, and the error leaves the handler.
session_scope_fail(p) ==
    /\ pc[p] \in ExitPcs \cup {"m_exit"}
    /\ session = p
    /\ pending # <<>>
    /\ pending' = <<>>
    /\ session' = None
    /\ loc' = Trace(loc, p, "rollback")
    /\ Raise(p, "PersistenceError")
    /\ UNCHANGED <<log, clock, Out, Env>>

\* A mistaken change_status: the payload is broadcast before log_status is
\* tried.
AdminLogFailsAfterBroadcast(p) ==
    /\ pc[p] = "adm_log"
    /\ session = p
    /\ broadcasts' = Append(broadcasts, jsondict(Status(loc[p].textstatus, "web", NextTs)))
    /\ pending' = <<>>
    /\ session' = None
    /\ loc' = Trace(Trace([loc EXCEPT ![p].message = "error"], p, "broadcast"),
                    p, "rollback")
    /\ Raise(p, "IntegrityError")
    /\ UNCHANGED <<log, clock, delivered, sink, Env>>

\* log_status raises IntegrityError: the except clause sets the page's
\* message and raises again, the finally renders the page, and the with
\* block rolls the session back on the way out.
AdminLogFails(p) ==
    /\ pc[p] = "adm_log"
    /\ session = p
    /\ pending' = <<>>
    /\ session' = None
    /\ loc' = Trace([loc EXCEPT ![p].message = "error"], p, "rollback")
    /\ Raise(p, "IntegrityError")
    /\ UNCHANGED <<log, clock, Out, Env>>

NextFault == Next \/ \E p \in Procs : session_scope_fail(p) \/ AdminLogFails(p)

SpecFault == Init /\ [][NextFault]_vars

\* ------------------------------------------------ sequential status commands
TextStatus(a) == IF ParseInt(a) = 1 THEN OPEN ELSE CLOSED

\* One source sends valid status commands one after the other.
IssueSeq ==
    /\ issued < MaxSeq
    /\ \E a \in {<<"0">>, <<"1">>} :
        /\ Dispatch("p1", Cmd("status", a, <<>>))
        /\ hist' = Append(hist, TextStatus(a))

StatusStep(p) ==
    \/ StatusStart(p)
    \/ session_scope_enter(p)
    \/ StatusRead(p)
    \/ StatusDecide(p)
    \/ StatusBroadcast(p)
    \/ StatusNotify(p)
    \/ session_scope_exit(p)

NextSeq == IssueSeq \/ StatusStep("p1")

SpecSeq == Init /\ [][NextSeq]_vars

\* ------------------------------------------------ concurrent status(1) commands
InitConc ==
    /\ log \in {<<>>, <<Status(CLOSED, "BITS", 1)>>}
    /\ clock = Len(log)
    /\ pending = <<>>
    /\ session = None
    /\ broadcasts = <<>>
    /\ sink = <<>>
    /\ users = {"BITS"}
    /\ pc = [p \in ConcProcs |-> "idle"]
    /\ cmd = [p \in ConcProcs |-> NoCmd]
    /\ loc = [p \in ConcProcs |-> NoLoc]
    /\ ret = [p \in ConcProcs |-> None]
    /\ issued = 0
    /\ hist = <<>>
    /\ NoConnections
    /\ hookbcast = CLIENTS

\* Each source submits status(1) once.
IssueConc(p) ==
    /\ cmd[p] = NoCmd
    /\ Dispatch(p, Cmd("status", <<"1">>, <<>>))
    /\ UNCHANGED hist

NextConc == \E p \in ConcProcs : IssueConc(p) \/ StatusStep(p)

SpecConc == InitConc /\ [][NextConc]_vars

\* ----------------------------------------------- connections and registries
\* query.get_latest_data: the current status and temperature, each None
\* when there is none.
get_latest_data ==
    LET temps == OfKind(Visible, "temperature") IN
    [status |-> IF get_current_status = NoRec THEN NoRec
                ELSE jsondict(get_current_status),
     tempint |-> IF temps = <<>> THEN NoRec ELSE jsondict(temps[Len(temps)])]

ConnCall(op, c) == [op |-> op, conn |-> c]
Handlers == <<users, pc, cmd, loc, ret, issued, hist>>

\* A mistaken on_open: the connection is not registered.
StatusConnection_on_open_unregistered(c) ==
    /\ cpc[c] = "idle"
    /\ Len(connlog) < MaxConnOps
    /\ connlog' = Append(connlog, ConnCall("on_open", c))
    /\ cpc' = [cpc EXCEPT ![c] = "latest"]
    /\ UNCHANGED <<Store, Out, Handlers, clients, hookbcast>>

\* StatusConnection.on_open: CLIENTS.register(self) ...
StatusConnection_on_open(c) ==
    /\ cpc[c] = "idle"
    /\ Len(connlog) < MaxConnOps
    /\ clients' = [clients EXCEPT ![CLIENTS] = register(@, c)]
    /\ connlog' = Append(connlog, ConnCall("on_open", c))
    /\ cpc' = [cpc EXCEPT ![c] = "latest"]
    /\ UNCHANGED <<Store, Out, Handlers, hookbcast>>

\* ... then, in a session of its own, the latest data are read and sent to
\* the connection.
StatusConnection_send_latest(c) ==
    /\ cpc[c] = "latest"
    /\ session = None
    /\ delivered' = [delivered EXCEPT ![c] = Append(@, [msg |-> get_latest_data, ok |-> TRUE])]
    /\ cpc' = [cpc EXCEPT ![c] = "idle"]
    /\ UNCHANGED <<Store, broadcasts, sink, Handlers, clients, connlog, hookbcast>>

\* StatusConnection.on_close: CLIENTS.unregister(self).
StatusConnection_on_close(c) ==
    /\ cpc[c] = "idle"
    /\ Len(connlog) < MaxConnOps
    /\ clients' = [clients EXCEPT ![CLIENTS] = unregister(@, c)]
    /\ connlog' = Append(connlog, ConnCall("on_close", c))
    /\ UNCHANGED <<Store, Out, Handlers, cpc, hookbcast>>

\* StatusHandler.open: QUEUE.register(self).
StatusHandler_open(w) ==
    /\ Len(connlog) < MaxConnOps
    /\ clients' = [clients EXCEPT ![QUEUE] = register(@, w)]
    /\ connlog' = Append(connlog, ConnCall("on_open", w))
    /\ UNCHANGED <<Store, Out, Handlers, cpc, hookbcast>>

\* StatusHandler.on_close: QUEUE.unregister(self).
StatusHandler_on_close(w) ==
    /\ Len(connlog) < MaxConnOps
    /\ clients' = [clients EXCEPT ![QUEUE] = unregister(@, w)]
    /\ connlog' = Append(connlog, ConnCall("on_close", w))
    /\ UNCHANGED <<Store, Out, Handlers, cpc, hookbcast>>

\* The commands of the runs with connections: status changes from the hook
\* and from the admin page, and the enter and leave commands.
RegCommands ==
    {Cmd("status", a, <<>>) : a \in {<<"0">>, <<"1">>}}
      \cup {Cmd("admin", <<"1">>, <<>>)}
      \cup {Cmd(k, a, <<>>) : k \in {"enter", "leave"}, a \in {<<"1">>, <<"x">>}}

InitReg ==
    /\ log = <<>>
    /\ pending = <<>>
    /\ session = None
    /\ clock = 0
    /\ broadcasts = <<>>
    /\ sink = <<>>
    /\ users = {"BITS"}
    /\ pc = [p \in RegProcs |-> "idle"]
    /\ cmd = [p \in RegProcs |-> NoCmd]
    /\ loc = [p \in RegProcs |-> NoLoc]
    /\ ret = [p \in RegProcs |-> None]
    /\ issued = 0
    /\ hist = <<>>
    /\ NoConnections
    /\ hookbcast \in Registries

IssueReg(p) ==
    /\ issued < MaxRegCmds
    /\ \E c \in RegCommands : Dispatch(p, c)
    /\ UNCHANGED hist

RegStep(p) ==
    \/ StatusStep(p)
    \/ EnterCommand(p)
    \/ LeaveCommand(p)
    \/ AdminPost(p)
    \/ AdminRead(p)
    \/ AdminLog(p)
    \/ AdminBroadcast(p)
    \/ AdminNotify(p)

ConnStep ==
    \/ \E c \in Conns :
          \/ StatusConnection_on_open(c)
          \/ StatusConnection_send_latest(c)
          \/ StatusConnection_on_close(c)
    \/ \E w \in WsConns :
          \/ StatusHandler_open(w)
          \/ StatusHandler_on_close(w)

NextReg == (\E p \in RegProcs : IssueReg(p) \/ RegStep(p)) \/ ConnStep

SpecReg == InitReg /\ [][NextReg]_vars

\* ------------------------------------------------------------------ properties
StatusLog == OfKind(log, "status")
Idle(p) == pc[p] = "idle"
\* The invocation has handled a command to its end.
Finished(p) == pc[p] = "idle" /\ ret[p] # None
Count(q, x) == Len(SelectSeq(q, LAMBDA y : y = x))

\* C1: no two consecutive persisted status records carry the same value,
\* whatever status commands and admin status changes have been handled.
NoConsecutiveDuplicateStatus ==
    \A i \in 1..(Len(StatusLog) - 1) : StatusLog[i].value # StatusLog[i + 1].value

\* C1 witness: the log holds a status change of the hook followed by one of
\* the admin page.
StatusFromBothPaths ==
    /\ Len(StatusLog) = 2
    /\ StatusLog[1].by = "BITS"
    /\ StatusLog[2].by = "web"

\* C2: N concurrent status(1) submissions against an empty log or a log whose
\* current status is CLOSED persist exactly one OPEN: never more than one,
\* and exactly one once all N have returned.
OpenCount == Len(SelectSeq(OfKind(Visible, "status"), LAMBDA r : r.value = OPEN))

RECURSIVE Collapse(_)
\* A sequence with its consecutive repeats removed.
Collapse(q) ==
    IF Len(q) <= 1 THEN q
    ELSE IF q[Len(q)] = q[Len(q) - 1] THEN Collapse(SubSeq(q, 1, Len(q) - 1))
    ELSE Append(Collapse(SubSeq(q, 1, Len(q) - 1)), q[Len(q)])

\* C7: after a sequential run of valid status commands from an empty log,
\* the persisted status values are the submitted values with consecutive
\* repeats collapsed.
SequentialCollapse ==
    Idle("p1") => [i \in 1..Len(StatusLog) |-> StatusLog[i].value] = Collapse(hist)

\* C7 witness: status(1), status(1), status(0) have been handled and two
\* changes are persisted.
SequentialRepeatDiscarded ==
    /\ Idle("p1")
    /\ hist = <<OPEN, OPEN, CLOSED>>
    /\ Len(StatusLog) = 2

\* The command fails validation: a field that does not parse, a status
\* outside {0, 1}, a payload that base64 or UTF-8 decoding rejects.
Malformed(c) ==
    CASE c.kind = "temperature" -> ~IsIntLiteral(c.a) \/ ~IsFloatLiteral(c.b)
      [] c.kind = "status" -> ~IsIntLiteral(c.a) \/ ParseInt(c.a) \notin {0, 1}
      [] c.kind = "message" -> ~B64DecodeOk(c.a) \/ ~Utf8DecodeOk(B64Decode(c.a))
      [] c.kind \in {"sound", "enter", "leave"} -> ~IsIntLiteral(c.a)
      [] OTHER -> FALSE

\* The invocation p takes the step.
Acts(p) == pc[p] # "idle" /\ pc'[p] # pc[p]

\* C3: every payload that has been broadcast is the payload of a record that
\* is in the committed log, also after a session has failed; stated for the
\* states in which no session is open, where every append has been
\* committed or rolled back.
BroadcastOnlyAfterPersistence ==
    session = None =>
        \A i \in 1..Len(broadcasts) : \E r \in Range(log) : jsondict(r) = broadcasts[i]

\* C4: a step of the handler of a malformed command changes neither the log,
\* nor the session's records, nor the broadcasts, nor the sink calls, and is
\* the handler's last step.
MalformedHasNoEffect ==
    [][\A p \in DOMAIN pc :
          (Acts(p) /\ Malformed(cmd[p])) =>
              /\ log' = log
              /\ pending' = pending
              /\ broadcasts' = broadcasts
              /\ sink' = sink
              /\ pc'[p] = "idle"]_vars

\* C4 witness: a message whose payload is rejected has been handled while the
\* log and the broadcasts hold an earlier event.
MalformedHandled ==
    \E p \in DOMAIN pc :
        /\ Finished(p)
        /\ cmd[p].kind = "message"
        /\ Malformed(cmd[p])
        /\ log # <<>>
        /\ broadcasts # <<>>

WellFormedTemperature(c) ==
    c.kind = "temperature" /\ IsIntLiteral(c.a) /\ IsFloatLiteral(c.b)

\* C6: a well-formed temperature command that has been handled made one
\* append and one broadcast; its sample is in the log once with the parsed
\* sensor and value, and the payload broadcast carries the sample's sensor,
\* value and timestamp.
TemperatureOnce ==
    \A p \in DOMAIN pc :
        (Finished(p) /\ WellFormedTemperature(cmd[p])) =>
            /\ Count(loc[p].trace, "log") = 1
            /\ Count(loc[p].trace, "broadcast") = 1
            /\ Count(log, loc[p].rec) = 1
            /\ loc[p].rec.kind = "temperature"
            /\ loc[p].rec.sensor = ParseInt(cmd[p].a)
            /\ loc[p].rec.value = ParseFloat(cmd[p].b)
            /\ Count(broadcasts, loc[p].payload) = 1
            /\ loc[p].payload.type = "temperature"
            /\ loc[p].payload.data.sensor = loc[p].rec.sensor
            /\ loc[p].payload.data.value = loc[p].rec.value
            /\ loc[p].payload.data.timestamp = loc[p].rec.ts

\* C6 witness: two well-formed temperature commands have been handled.
TwoTemperaturesHandled ==
    /\ \A p \in DOMAIN pc : Finished(p) /\ WellFormedTemperature(cmd[p])
    /\ Len(OfKind(log, "temperature")) = 2

\* C8: no message record whose author did not resolve is added to the store
\* or broadcast.
UnresolvedAuthorNeverLogged ==
    /\ \A r \in Range(Visible) : r.kind = "message" => r.author # None
    /\ \A i \in 1..Len(broadcasts) :
          broadcasts[i].type = "message" => broadcasts[i].data.user # None

\* C9: the step of the sound handler leaves the log, the session's records
\* and the broadcasts alone and ends the handler; for an id that parses it
\* adds one send_sound call with that id, otherwise none.
SoundOnlyNotifies ==
    [][\A p \in DOMAIN pc :
          (Acts(p) /\ cmd[p].kind = "sound") =>
              /\ log' = log
              /\ pending' = pending
              /\ broadcasts' = broadcasts
              /\ pc'[p] = "idle"
              /\ ret'[p] = "returned"
              /\ IF IsIntLiteral(cmd[p].a)
                 THEN \E ok \in BOOLEAN :
                        sink' = Append(sink, [call |-> "send_sound",
                                              arg |-> ParseInt(cmd[p].a), ok |-> ok])
                 ELSE sink' = sink]_vars

\* C9 witness: sound(" 3") has been handled, the sink was told 3, and the
\* log holds an earlier event.
SoundThreeSent ==
    \E p \in DOMAIN pc :
        /\ Finished(p)
        /\ cmd[p] = Cmd("sound", <<" ", "3">>, <<>>)
        /\ sink # <<>>
        /\ sink[Len(sink)].call = "send_sound"
        /\ sink[Len(sink)].arg = 3
        /\ log # <<>>

\* C10: the handler of a malformed command returns normally; no exception
\* reaches its caller.
MalformedNeverRaises ==
    \A p \in DOMAIN pc : Malformed(cmd[p]) => ret[p] \in {None, "returned"}

\* The invocation has told the sink.
Sent(l) == "send" \in Range(l.trace) \/ "send_failed" \in Range(l.trace)

\* C11: the step in which the append of an admin status change fails with
\* IntegrityError leaves the log, the broadcasts, what reached the
\* connections and the sink calls as they were, keeps nothing of the change
\* in the session, and ends the handler with the error; the invocation has
\* made no broadcast and no sink call.
AdminAppendFailureSilent ==
    [][\A p \in DOMAIN pc :
          (pc[p] = "adm_log" /\ ret'[p] = "IntegrityError") =>
              /\ log' = log
              /\ pending' = <<>>
              /\ broadcasts' = broadcasts
              /\ delivered' = delivered
              /\ sink' = sink
              /\ pc'[p] = "idle"
              /\ loc'[p].rec = NoRec
              /\ loc'[p].payload = NoRec
              /\ "broadcast" \notin Range(loc'[p].trace)
              /\ ~Sent(loc'[p])]_vars

\* C11 witness: an admin status change has ended with IntegrityError while
\* the log and the broadcasts hold an earlier status change, and nothing
\* else.
AdminAppendFailed ==
    \E p \in DOMAIN pc :
        /\ Finished(p)
        /\ cmd[p].kind = "admin"
        /\ ret[p] = "IntegrityError"
        /\ Len(log) = 1
        /\ Len(broadcasts) = 1
        /\ Len(sink) = 1

Last(q) == q[Len(q)]

RegistrationIdempotent ==
    [][connlog' # connlog =>
          LET c == Last(connlog').conn
              r == RegistryOf(c)
          IN /\ \A o \in Registries \ {r} : clients'[o] = clients[o]
             /\ Last(connlog').op = "on_open" =>
                   /\ clients'[r] = clients[r] \cup {c}
                   /\ (c \in clients[r] => clients'[r] = clients[r])
                   /\ register(clients'[r], c) = clients'[r]
             /\ Last(connlog').op = "on_close" =>
                   /\ clients'[r] = clients[r] \ {c}
                   /\ (c \notin clients[r] => clients'[r] = clients[r])
                   /\ unregister(clients'[r], c) = clients'[r]]_vars

\* C13 witness: on_open was called twice for c1 and has sent the latest data
\* twice; c1 is in the registry, and a status change was sent to it once.
OpenedTwice ==
    /\ connlog = <<ConnCall("on_open", "c1"), ConnCall("on_open", "c1")>>
    /\ clients[CLIENTS] = {"c1"}
    /\ Len(delivered["c1"]) = 3
    /\ Len(broadcasts) = 1
    /\ Last(delivered["c1"]).msg = broadcasts[1]

\* C14: the step of the enter handler and of the leave handler, for an id
\* that parses or not, changes neither the log, nor the session's records,
\* nor the broadcasts, nor what reached the connections, nor the sink
\* calls, nor the registries, and the handler returns.
EnterLeaveNoOp ==
    [][\A p \in DOMAIN pc :
          (Acts(p) /\ cmd[p].kind \in {"enter", "leave"}) =>
              /\ log' = log
              /\ pending' = pending
              /\ broadcasts' = broadcasts
              /\ delivered' = delivered
              /\ sink' = sink
              /\ clients' = clients
              /\ pc'[p] = "idle"
              /\ ret'[p] = "returned"]_vars

\* C14 witness: enter("1") has been handled while c1 was registered and had
\* been sent the latest data.
EnterHandled ==
    \E p \in DOMAIN pc :
        /\ Finished(p)
        /\ cmd[p] = Cmd("enter", <<"1">>, <<>>)
        /\ clients[CLIENTS] = {"c1"}
        /\ Len(delivered["c1"]) = 1

\* C15: a message command whose payload decodes to the text T and whose
\* author resolves, once handled, has made one append, one broadcast and
\* one sink call; its record is in the log once, a message of BITS with
\* text T; the payload broadcast carries T and the record's timestamp; the
\* sink was called with T.
MessageRoundTrip ==
    \A p \in DOMAIN pc :
        (Finished(p) /\ cmd[p].kind = "message" /\ ~Malformed(cmd[p]) /\ "BITS" \in users) =>
            LET T == Utf8Decode(B64Decode(cmd[p].a)) IN
            /\ ret[p] = "returned"
            /\ Count(loc[p].trace, "log") = 1
            /\ Count(loc[p].trace, "broadcast") = 1
            /\ Count(loc[p].trace, "send") + Count(loc[p].trace, "send_failed") = 1
            /\ loc[p].rec = Message("BITS", T, loc[p].rec.ts)
            /\ Count(log, loc[p].rec) = 1
            /\ loc[p].payload.type = "message"
            /\ loc[p].payload.data.text = T
            /\ loc[p].payload.data.timestamp = loc[p].rec.ts
            /\ Count(broadcasts, loc[p].payload) = 1
            /\ \E i \in 1..Len(sink) : sink[i].call = "send_message" /\ sink[i].arg = T

\* C15 witness: message("w6k=") has been handled: the log holds a message
\* with the one code point 233, which was broadcast and passed to the sink.
MessageDelivered ==
    \E p \in DOMAIN pc :
        /\ Finished(p)
        /\ cmd[p] = Cmd("message", <<"w", "6", "k", "=">>, <<>>)
        /\ loc[p].rec \in Range(log)
        /\ loc[p].rec.text = <<233>>
        /\ loc[p].payload \in Range(broadcasts)
        /\ loc[p].payload.data.text = <<233>>
        /\ sink # <<>>
        /\ Last(sink) = [call |-> "send_message", arg |-> <<233>>, ok |-> TRUE]

\* C16: while the session of a status change (hook or admin page) is open,
\* the invocation has made neither its broadcast nor its sink call: both
\* come after the session has ended.
StatusFanoutOutsideSession ==
    \A p \in DOMAIN pc :
        (cmd[p].kind \in {"status", "admin"} /\ session = p) =>
            /\ "broadcast" \notin Range(loc[p].trace)
            /\ ~Sent(loc[p])

\* The appends, broadcasts and sink calls of an invocation, in order.
Events(l) ==
    LET e == SelectSeq(l.trace, LAMBDA o : o \in {"log", "broadcast", "send", "send_failed"})
    IN [i \in 1..Len(e) |-> IF e[i] = "send_failed" THEN "send" ELSE e[i]]

IsPrefix(a, b) == Len(a) <= Len(b) /\ a = SubSeq(b, 1, Len(a))

\* C17: the invocation of a status or message command (hook or web) makes
\* its calls in the order append, broadcast, sink, each at most once, and
\* each once when it has returned with a record; and once it has called
\* the sink and its session is over, its record is in the log and its
\* payload among the broadcasts.
AppendBroadcastSinkInOrder ==
    \A p \in DOMAIN pc :
        cmd[p].kind \in {"status", "admin", "message", "webmessage"} =>
            /\ IsPrefix(Events(loc[p]), <<"log", "broadcast", "send">>)
            /\ (Finished(p) /\ ret[p] = "returned" /\ loc[p].rec # NoRec) =>
                  Events(loc[p]) = <<"log", "broadcast", "send">>
            /\ (Sent(loc[p]) /\ session # p) =>
                  /\ loc[p].rec \in Range(log)
                  /\ loc[p].payload \in Range(broadcasts)

\* C18: once a valid status command has read a current status equal to its
\* own value, no step of its handler changes the log, the session's
\* records, the broadcasts, what reached the connections, the sink calls
\* or the current status; the handler leaves the session and returns.
DuplicateStatusDiscarded ==
    [][\A p \in DOMAIN pc :
          (/\ Acts(p)
           /\ cmd[p].kind = "status"
           /\ "read" \in Range(loc[p].trace)
           /\ loc[p].curstatus # NoRec
           /\ loc[p].curstatus.value = loc[p].textstatus) =>
              /\ log' = log
              /\ pending' = pending
              /\ broadcasts' = broadcasts
              /\ delivered' = delivered
              /\ sink' = sink
              /\ get_current_status' = get_current_status
              /\ loc'[p].rec = NoRec
              /\ pc'[p] \in {"st_exit", "idle"}
              /\ pc'[p] = "idle" => ret'[p] = "returned"]_vars

\* C18 witness: status(1) has been handled on a log whose current status
\* is OPEN: it read the status and made no append, no broadcast and no
\* sink call.
DuplicateOpenHandled ==
    \E p \in DOMAIN pc :
        /\ Finished(p)
        /\ cmd[p] = Cmd("status", <<"1">>, <<>>)
        /\ loc[p].curstatus # NoRec
        /\ loc[p].curstatus.value = OPEN
        /\ loc[p].trace = <<"begin", "read", "commit">>
        /\ Len(log) = 1
        /\ Len(broadcasts) = 1
        /\ Len(sink) = 1

\* The last call made for connection c was on_open.
Opened(q, c) ==
    LET calls == SelectSeq(q, LAMBDA x : x.conn = c)
    IN calls # <<>> /\ Last(calls).op = "on_open"

AdminAlwaysToggles ==
    \A p \in DOMAIN pc :
        cmd[p].kind = "admin" =>
            /\ pc[p] = "adm_log" => get_current_status = loc[p].curstatus
            /\ loc[p].rec # NoRec =>
                  /\ loc[p].rec.kind = "status"
                  /\ loc[p].rec.by = "web"
                  /\ IF loc[p].curstatus = NoRec
                     THEN loc[p].rec.value = CLOSED
                     ELSE /\ loc[p].rec.value \in {OPEN, CLOSED}
                          /\ loc[p].rec.value # loc[p].curstatus.value

\* C20 witness: two admin status changes on an empty log have persisted
\* CLOSED and then OPEN.
AdminToggledTwice ==
    /\ \A p \in DOMAIN pc : Finished(p) /\ cmd[p].kind = "admin"
    /\ Len(log) = 2
    /\ log[1].value = CLOSED /\ log[1].by = "web"
    /\ log[2].value = OPEN /\ log[2].by = "web"

====
